---- MODULE Spec2Model ----
(***************************************************************************)
(* A model of the vds crate: the alphabet VDS_ALLOWED, the index-based     *)
(* character VDChar, the validated string VDString with its cached text,   *)
(* and the random generator VDGenerator.                                   *)
(*                                                                         *)
(* A char is a one-character string, a text (str / String) is a sequence   *)
(* of chars, a Vec is a sequence, Option<T> is a sequence of length <= 1   *)
(* (None == <<>>, Some(x) == <<x>>), Result<T, E> is a tagged record.      *)
(***************************************************************************)
EXTENDS Integers, Sequences, FiniteSets, TLC

\* ------------------------------------------------------------------ bounds

\* Longest code length explored under the free randomness source.
MaxLen == 3
\* Longest raw text handed to from_str / longest Vec handed to VDString::new.
MaxStrLen == 3
\* Cap on the draws the rejection loop may spend on discarded candidates: a
\* discard is explored only while fewer than MaxDraws draws were made. The
\* code has no such bound; the cap only ends the exploration of a run of
\* discards.
MaxDraws == 8

\* ------------------------------------------------------- values of the code

None == << >>
Some(x) == << x >>

Ok(v) == [tag |-> "Ok", val |-> v]
Err(e) == [tag |-> "Err", val |-> e]
NoRet == [tag |-> "None", val |-> << >>]

\* vdchar.rs: pub const VDS_ALLOWED
VDS_ALLOWED ==
    << "A", "B", "C", "D", "E", "F", "G", "H", "J", "K",
       "M", "N", "P", "Q", "R", "S", "T", "U", "V", "W",
       "X", "Y", "Z", "2", "3", "4", "5", "6", "7", "8", "9" >>

\* VDS_ALLOWED.len()
N == Len(VDS_ALLOWED)

\* `x as u8`
AsU8(x) == x % 256

\* Iterator::position: the 0-based index of the first element equal to c.
RECURSIVE position(_, _)
position(c, k) ==
    IF k >= N THEN None
    ELSE IF VDS_ALLOWED[k + 1] = c THEN Some(k)
    ELSE position(c, k + 1)

\* A plausible slip: the match position stored 1-based.
VDChar_new_OneBased(c) ==
    LET p == position(c, 0) IN
    IF p = None THEN None ELSE Some(AsU8(p[1] + 1))

\* VDChar::new(c): Option<VDChar>, the VDChar being its u8 index.
VDChar_new(c) ==
    LET p == position(c, 0) IN
    IF p = None THEN None ELSE Some(AsU8(p[1]))

\* A plausible slip: the index used 1-based against a 0-based table.
as_char_Shifted(v) == VDS_ALLOWED[((v + 1) % N) + 1]

\* VDChar::as_char(self)
as_char(v) == VDS_ALLOWED[v + 1]

\* A plausible slip: the cache collected from the reversed iterator.
VDString_new_Reversed(chars) ==
    [chars |-> chars,
     cache |-> [k \in 1..Len(chars) |-> as_char(chars[Len(chars) + 1 - k])]]

\* VDString::new(chars): the cache is collected from as_char of every symbol.
VDString_new(chars) ==
    [chars |-> chars,
     cache |-> [k \in 1..Len(chars) |-> as_char(chars[k])]]

InvalidChar(c) == [kind |-> "InvalidChar", char |-> c]

\* A plausible slip: the scan goes on after an invalid character and the
\* error reported is the last one met.
RECURSIVE collect_LastError(_, _, _, _)
collect_LastError(s, k, acc, err) ==
    IF k > Len(s) THEN (IF err = None THEN Ok(acc) ELSE Err(err[1]))
    ELSE LET r == VDChar_new(s[k]) IN
         IF r = None THEN collect_LastError(s, k + 1, acc, Some(InvalidChar(s[k])))
         ELSE collect_LastError(s, k + 1, Append(acc, r[1]), err)

collect_Last(s, k, acc) == collect_LastError(s, k, acc, None)

\* s.chars().map(..).collect::<Result<Vec<_>, _>>(): the first Err ends the
\* collection and is the result.
RECURSIVE collect(_, _, _)
collect(s, k, acc) ==
    IF k > Len(s) THEN Ok(acc)
    ELSE LET r == VDChar_new(s[k]) IN
         IF r = None THEN Err(InvalidChar(s[k]))
         ELSE collect(s, k + 1, Append(acc, r[1]))

\* VDString::from_str(s) (and TryFrom<&str>, which calls it)
from_str(s) ==
    LET r == collect(s, 1, << >>) IN
    IF r.tag = "Ok" THEN Ok(VDString_new(r.val)) ELSE r

\* ------------------------------------------------------------ the generator

\* VDGenerator::new()
VDGenerator_new == [len |-> 6, no_adjacent_repeats |-> FALSE, no_repeats |-> FALSE]

LengthExceedsUniqueSet(requested, available) ==
    [kind |-> "LengthExceedsUniqueSet", requested |-> requested, available |-> available]

\* A plausible slip: an off-by-one in the bound.
LengthExceeds_OffByOne(g) == g.no_repeats /\ g.len > N + 1

\* generate: self.no_repeats && self.len > VDS_ALLOWED.len()
LengthExceeds(g) == g.no_repeats /\ g.len > N

\* A plausible slip: the pool built from a truncated index.
InitialPool_Truncated == [k \in 1..N |-> AsU8(k - 1) % 2]

\* (0..VDS_ALLOWED.len()).map(|i| VDChar(i as u8)).collect()
InitialPool == [k \in 1..N |-> AsU8(k - 1)]

\* A plausible slip: the offset i left out, as in a full-range pick.
ShuffleIndex_NoOffset(p, i, x) == x % (Len(p) - i)

\* let j = i + (rng.next_u32() as usize % (pool.len() - i));
ShuffleIndex(p, i, x) == i + (x % (Len(p) - i))

\* A plausible slip: a copy in place of a swap.
pool_swap_Copy(p, a, b) == [p EXCEPT ![a + 1] = p[b + 1]]

\* pool.swap(a, b), 0-based
pool_swap(p, a, b) == [p EXCEPT ![a + 1] = p[b + 1], ![b + 1] = p[a + 1]]

\* &pool[..n]
Prefix(p, n) == SubSeq(p, 1, n)

\* A plausible slip: the comparison inverted.
AnyAdjacentEqual_Inverted(r) == \E k \in 1..(Len(r) - 1) : r[k] # r[k + 1]

\* result.windows(2).any(|w| w[0] == w[1])
AnyAdjacentEqual(r) == \E k \in 1..(Len(r) - 1) : r[k] = r[k + 1]

\* result.rotate_left(1)
rotate_left(r) == IF Len(r) = 0 THEN r ELSE Append(Tail(r), Head(r))

\* A plausible slip: the modulus off by one.
SampleIndex_OffByOne(x) == x % (N + 1)

\* let idx = (rng.next_u32() as usize) % VDS_ALLOWED.len();
SampleIndex(x) == x % N

\* A plausible slip: the wrong flag guards the comparison.
IsAdjacentRepeat_WrongFlag(g, l, c) == g.no_repeats /\ l = Some(c)

\* A plausible slip: the comparison made whether or not the flag is set.
IsAdjacentRepeat_IgnoresFlag(g, l, c) == l = Some(c)

\* self.no_adjacent_repeats && last == Some(ch)
IsAdjacentRepeat(g, l, c) == g.no_adjacent_repeats /\ l = Some(c)

\* ------------------------------------------------------ the randomness source

\* The values a free source may return from next_u32: small ones, the
\* multiples and neighbours of the alphabet size, and a large one.
RngValues == {0, 1, 30, 31, 2147483647}

FreeRng == [mode |-> "free", v |-> 0, inc |-> 0]

\* Deterministic sources: next_u32 returns v and advances it by inc. With
\* inc = 0 the source is constant; with inc = 31 it is constant modulo the
\* alphabet size. The values met stay far below 2^32, so no wrap occurs.
StepRngs == [mode : {"step"}, v : {0, 7, 1000}, inc : {0, 1, 31}]

RngSources == {FreeRng} \cup StepRngs

\* What rng.next_u32() may return in this state of the source.
NextU32(r) == IF r.mode = "free" THEN RngValues ELSE {r.v}

\* The state of the source after one next_u32.
Advance(r) == IF r.mode = "free" THEN r ELSE [r EXCEPT !.v = r.v + r.inc]

\* ----------------------------------------------------------------- inputs

\* Characters handed to VDChar::new.
Chars ==
    {VDS_ALLOWED[k] : k \in 1..N}
        \cup {"O", "0", "I", "1", "L", "a", "b", "o", "i", "l", "z", "!", " "}

\* Characters of the raw texts handed to from_str.
ParseChars == {"A", "B", "9", "O", "0", "a", "!"}

Texts == UNION {[1..k -> ParseChars] : k \in 0..MaxStrLen}

\* Symbols handed to VDString::new: VDChars obtained from VDChar::new.
TrustedSymbols == {VDChar_new(c)[1] : c \in {d \in ParseChars : VDChar_new(d) # None}}

SymbolSeqs == UNION {[1..k -> TrustedSymbols] : k \in 0..MaxStrLen}

\* Lengths handed to VDGenerator::length. Codes as long as the alphabet are
\* explored under the deterministic sources only.
Lengths(r) ==
    IF r.mode = "free" THEN 0..MaxLen ELSE (0..MaxLen) \cup {N - 1, N, N + 1, N + 2}

\* ------------------------------------------------------------------ state

VARIABLES
    pc,         \* where the caller is: "idle", "build", "shuffle", "repair",
                \* "sample", "returned", "panic"
    op,         \* the operation called: "none", "VDChar::new", "from_str",
                \* "VDString::new", "generate"
    input,      \* the argument of the call (a char, a text, a Vec<VDChar>)
    gen,        \* the VDGenerator: len, no_adjacent_repeats, no_repeats
    rng,        \* the randomness source
    draws,      \* how many times next_u32 was called
    pool,       \* generate: pool
    i,          \* generate: the shuffle loop's i
    result,     \* generate: result
    last,       \* generate: last
    ch,         \* generate: the candidate of the latest draw, as an Option
    tries,      \* generate: iterations of the repair loop so far
    rotations,  \* generate: how many times rotate_left ran
    ret,        \* what the call returned
    obs         \* what the latest operation on the returned VDString yielded

vars == << pc, op, input, gen, rng, draws, pool, i, result, last, ch,
           tries, rotations, ret, obs >>

genLocals == << pool, i, result, last, ch, tries, rotations >>

\* An observation: the number, the symbols and the text an operation yielded.
Obs(o, n, syms, text) == [op |-> o, n |-> n, syms |-> syms, text |-> text]

NoObs == Obs("none", 0, << >>, << >>)

Init ==
    /\ pc = "idle"
    /\ op = "none"
    /\ input = << >>
    /\ gen = VDGenerator_new
    /\ rng \in RngSources
    /\ draws = 0
    /\ pool = << >>
    /\ i = 0
    /\ result = << >>
    /\ last = None
    /\ ch = None
    /\ tries = 0
    /\ rotations = 0
    /\ ret = NoRet
    /\ obs = NoObs

\* ------------------------------------------------- VDChar and VDString calls

CallVDCharNew ==
    /\ pc = "idle"
    /\ \E c \in Chars :
        /\ input' = c
        /\ ret' = [tag |-> "Option", val |-> VDChar_new(c)]
    /\ op' = "VDChar::new"
    /\ pc' = "returned"
    /\ UNCHANGED << gen, rng, draws, genLocals, obs >>

CallFromStr ==
    /\ pc = "idle"
    /\ \E s \in Texts :
        /\ input' = s
        /\ ret' = from_str(s)
    /\ op' = "from_str"
    /\ pc' = "returned"
    /\ UNCHANGED << gen, rng, draws, genLocals, obs >>

CallVDStringNew ==
    /\ pc = "idle"
    /\ \E cs \in SymbolSeqs :
        /\ input' = cs
        /\ ret' = Ok(VDString_new(cs))
    /\ op' = "VDString::new"
    /\ pc' = "returned"
    /\ UNCHANGED << gen, rng, draws, genLocals, obs >>

\* ------------------------------------------------------------ the builder

BuilderNew ==
    /\ pc = "idle"
    /\ gen' = VDGenerator_new
    /\ pc' = "build"
    /\ UNCHANGED << op, input, rng, draws, genLocals, ret, obs >>

BuilderLength ==
    /\ pc = "build"
    /\ \E n \in Lengths(rng) : gen' = [gen EXCEPT !.len = n]
    /\ UNCHANGED << pc, op, input, rng, draws, genLocals, ret, obs >>

BuilderNoAdjacentRepeats ==
    /\ pc = "build"
    /\ gen' = [gen EXCEPT !.no_adjacent_repeats = TRUE]
    /\ UNCHANGED << pc, op, input, rng, draws, genLocals, ret, obs >>

BuilderNoRepeats ==
    /\ pc = "build"
    /\ gen' = [gen EXCEPT !.no_repeats = TRUE]
    /\ UNCHANGED << pc, op, input, rng, draws, genLocals, ret, obs >>

\* ---------------------------------------------------------------- generate

\* Entry of generate: the precondition check, then the set-up of the branch.
GenerateCall ==
    /\ pc = "build"
    /\ op' = "generate"
    /\ input' = gen
    /\ IF LengthExceeds(gen)
       THEN /\ ret' = Err(LengthExceedsUniqueSet(gen.len, N))
            /\ pc' = "returned"
            /\ UNCHANGED << pool, i, result, last >>
       ELSE /\ result' = << >>
            /\ ret' = ret
            /\ IF gen.no_repeats
               THEN /\ pool' = InitialPool
                    /\ i' = 0
                    /\ pc' = "shuffle"
                    /\ last' = last
               ELSE /\ last' = None
                    /\ pc' = "sample"
                    /\ UNCHANGED << pool, i >>
    /\ UNCHANGED << gen, rng, draws, ch, tries, rotations, obs >>

\* A plausible slip: the source is called twice in an iteration, the first
\* value thrown away.
ShuffleStep_DoubleDraw ==
    /\ pc = "shuffle"
    /\ i < gen.len
    /\ \E x \in NextU32(Advance(rng)) :
        LET j == ShuffleIndex(pool, i, x) IN
        pool' = pool_swap(pool, i, j)
    /\ rng' = Advance(Advance(rng))
    /\ draws' = draws + 2
    /\ i' = i + 1
    /\ UNCHANGED << pc, op, input, gen, result, last, ch, tries, rotations, ret, obs >>

\* One iteration of the partial Fisher-Yates loop.
ShuffleStep ==
    /\ pc = "shuffle"
    /\ i < gen.len
    /\ \E x \in NextU32(rng) :
        LET j == ShuffleIndex(pool, i, x) IN
        pool' = pool_swap(pool, i, j)
    /\ rng' = Advance(rng)
    /\ draws' = draws + 1
    /\ i' = i + 1
    /\ UNCHANGED << pc, op, input, gen, result, last, ch, tries, rotations, ret, obs >>

\* The loop is over: the prefix of the pool becomes the result; without the
\* adjacent flag the call returns.
ShuffleDone ==
    /\ pc = "shuffle"
    /\ i >= gen.len
    /\ result' = result \o Prefix(pool, gen.len)
    /\ IF gen.no_adjacent_repeats
       THEN /\ pc' = "repair"
            /\ tries' = 0
            /\ ret' = ret
       ELSE /\ pc' = "returned"
            /\ ret' = Ok(VDString_new(result'))
            /\ tries' = tries
    /\ UNCHANGED << op, input, gen, rng, draws, pool, i, last, ch, rotations, obs >>

\* One iteration of the repair loop: rotate, or break and return.
RepairStep ==
    /\ pc = "repair"
    /\ tries < gen.len
    /\ IF AnyAdjacentEqual(result)
       THEN /\ result' = rotate_left(result)
            /\ rotations' = rotations + 1
            /\ tries' = tries + 1
            /\ UNCHANGED << pc, ret >>
       ELSE /\ pc' = "returned"
            /\ ret' = Ok(VDString_new(result))
            /\ UNCHANGED << result, rotations, tries >>
    /\ UNCHANGED << op, input, gen, rng, draws, pool, i, last, ch, obs >>

\* The repair loop ran out of tries: the call returns what it has.
RepairExhausted ==
    /\ pc = "repair"
    /\ tries >= gen.len
    /\ pc' = "returned"
    /\ ret' = Ok(VDString_new(result))
    /\ UNCHANGED << op, input, gen, rng, draws, genLocals, obs >>

\* One iteration of the with-replacement loop whose candidate is pushed.
SampleAccept ==
    /\ pc = "sample"
    /\ Len(result) < gen.len
    /\ \E x \in NextU32(rng) :
        LET c == AsU8(SampleIndex(x)) IN
        /\ ~IsAdjacentRepeat(gen, last, c)
        /\ ch' = Some(c)
        /\ result' = Append(result, c)
        /\ last' = Some(c)
    /\ rng' = Advance(rng)
    /\ draws' = draws + 1
    /\ UNCHANGED << pc, op, input, gen, pool, i, tries, rotations, ret, obs >>

\* One iteration of the with-replacement loop whose candidate is discarded
\* (`continue`).
SampleReject ==
    /\ pc = "sample"
    /\ Len(result) < gen.len
    /\ draws < MaxDraws
    /\ \E x \in NextU32(rng) :
        LET c == AsU8(SampleIndex(x)) IN
        /\ IsAdjacentRepeat(gen, last, c)
        /\ ch' = Some(c)
    /\ rng' = Advance(rng)
    /\ draws' = draws + 1
    /\ UNCHANGED << pc, op, input, gen, pool, i, result, last, tries, rotations, ret, obs >>

\* The while condition fails: the call returns.
SampleDone ==
    /\ pc = "sample"
    /\ ~(Len(result) < gen.len)
    /\ pc' = "returned"
    /\ ret' = Ok(VDString_new(result))
    /\ UNCHANGED << op, input, gen, rng, draws, genLocals, obs >>

\* ------------------------------------- operations on a returned VDString

HasString == pc = "returned" /\ ret.tag = "Ok"

\* str::len of the dereferenced cache: its length in bytes; every character
\* of the alphabet is ASCII, one byte each.
OpLen ==
    /\ HasString
    /\ obs' = Obs("len", Len(ret.val.cache), << >>, << >>)
    /\ UNCHANGED << pc, op, input, gen, rng, draws, genLocals, ret >>

\* Index<usize>: &self.chars[index], a panic when out of bounds.
OpIndex ==
    /\ HasString
    /\ \E k \in 0..MaxStrLen :
        IF k < Len(ret.val.chars)
        THEN /\ obs' = Obs("index", k, << ret.val.chars[k + 1] >>, << >>)
             /\ pc' = pc
        ELSE /\ obs' = Obs("index", k, << >>, << >>)
             /\ pc' = "panic"
    /\ UNCHANGED << op, input, gen, rng, draws, genLocals, ret >>

\* IntoIterator for &VDString: self.chars.iter().copied(), run to its end.
OpIter ==
    /\ HasString
    /\ obs' = Obs("iter", 0, [k \in 1..Len(ret.val.chars) |-> ret.val.chars[k]], << >>)
    /\ UNCHANGED << pc, op, input, gen, rng, draws, genLocals, ret >>

\* as_vdchars: &self.chars
OpAsVdchars ==
    /\ HasString
    /\ obs' = Obs("as_vdchars", 0, ret.val.chars, << >>)
    /\ UNCHANGED << pc, op, input, gen, rng, draws, genLocals, ret >>

\* Deref: &self.cache
OpDeref ==
    /\ HasString
    /\ obs' = Obs("deref", 0, << >>, ret.val.cache)
    /\ UNCHANGED << pc, op, input, gen, rng, draws, genLocals, ret >>

\* Display: f.write_str(&self.cache)
OpDisplay ==
    /\ HasString
    /\ obs' = Obs("display", 0, << >>, ret.val.cache)
    /\ UNCHANGED << pc, op, input, gen, rng, draws, genLocals, ret >>

\* #[derive(Clone)]: a field-by-field copy.
OpClone ==
    /\ HasString
    /\ obs' = Obs("clone", 0, ret.val.chars, ret.val.cache)
    /\ UNCHANGED << pc, op, input, gen, rng, draws, genLocals, ret >>

\* ------------------------------------------------------- the specification

Next ==
    \/ CallVDCharNew
    \/ CallFromStr
    \/ CallVDStringNew
    \/ BuilderNew
    \/ BuilderLength
    \/ BuilderNoAdjacentRepeats
    \/ BuilderNoRepeats
    \/ GenerateCall
    \/ ShuffleStep
    \/ ShuffleDone
    \/ RepairStep
    \/ RepairExhausted
    \/ SampleAccept
    \/ SampleReject
    \/ SampleDone
    \/ OpLen
    \/ OpIndex
    \/ OpIter
    \/ OpAsVdchars
    \/ OpDeref
    \/ OpDisplay
    \/ OpClone

Spec == Init /\ [][Next]_vars

\* ------------------------------------------------------------ properties

\* generate was called and has returned.
GenerateReturned == op = "generate" /\ ret.tag # "None"

GenerateOk == op = "generate" /\ ret.tag = "Ok"

InAlphabetRange(v) == v \in 0..(N - 1)

PairwiseDistinct(s) == \A a, b \in 1..Len(s) : a # b => s[a] # s[b]

NoAdjacentEqual(s) == \A k \in 1..(Len(s) - 1) : s[k] # s[k + 1]

\* C1: for every configuration that passes validation and any sequence of
\* draws, generate returns Ok with a VDString of exactly the configured
\* length, every VDChar of which (also while it is being assembled) has an
\* index in [0, N), N = 31.
C1_GenerateLengthAndAlphabet ==
    /\ N = 31
    /\ op = "generate" =>
        \A k \in 1..Len(result) : InAlphabetRange(result[k])
    /\ (GenerateReturned /\ ~(gen.no_repeats /\ gen.len > N)) =>
        /\ ret.tag = "Ok"
        /\ Len(ret.val.chars) = gen.len
        /\ \A k \in 1..Len(ret.val.chars) : InAlphabetRange(ret.val.chars[k])

C1_Witness ==
    /\ GenerateOk
    /\ rng.mode = "free"
    /\ gen.len = 6
    /\ ~gen.no_repeats
    /\ \E k \in 1..Len(ret.val.chars) : ret.val.chars[k] = N - 1

\* C2: with no_adjacent_repeats set, no_repeats not set and length >= 2, no
\* two consecutive symbols of the returned VDString are equal; and a drawn
\* symbol equal to the last accepted one is discarded: that iteration leaves
\* the output and the recorded last symbol as they were.
C2_ReturnedNoAdjacent ==
    (GenerateOk /\ gen.no_adjacent_repeats /\ ~gen.no_repeats /\ gen.len >= 2) =>
        NoAdjacentEqual(ret.val.chars)

C2_DiscardStep ==
    (/\ pc = "sample"
     /\ gen.no_adjacent_repeats
     /\ draws' = draws + 1
     /\ ch' = last) =>
        (result' = result /\ last' = last /\ pc' = pc)

C2_NoAdjacentRepeats == []C2_ReturnedNoAdjacent /\ [][C2_DiscardStep]_vars

C2_Witness ==
    /\ GenerateOk
    /\ gen.no_adjacent_repeats
    /\ ~gen.no_repeats
    /\ gen.len >= 2
    /\ draws > gen.len

\* C3: with no_repeats set and length <= N, the symbols of the returned
\* VDString are pairwise distinct.
C3_NoRepeatsDistinct ==
    (GenerateOk /\ gen.no_repeats /\ gen.len <= N) =>
        PairwiseDistinct(ret.val.chars)

C3_Witness ==
    /\ GenerateOk
    /\ gen.no_repeats
    /\ ~gen.no_adjacent_repeats
    /\ gen.len = N
    /\ Len(ret.val.chars) = N

\* C4: with no_repeats set and length > N, generate fails at once with
\* LengthExceedsUniqueSet { requested: length, available: N = 31 }: it never
\* enters a loop, builds no output and makes no draw, and the step that
\* returns the error leaves the randomness source as it was; with or without
\* no_adjacent_repeats.
C4_ErrorState ==
    (op = "generate" /\ gen.no_repeats /\ gen.len > N) =>
        /\ pc = "returned"
        /\ ret.tag = "Err"
        /\ ret.val.kind = "LengthExceedsUniqueSet"
        /\ ret.val.requested = gen.len
        /\ ret.val.available = 31
        /\ result = << >>
        /\ draws = 0

C4_ErrorStep ==
    (op' = "generate" /\ ret'.tag = "Err") => (rng' = rng /\ draws' = draws)

C4_LengthExceedsUniqueSet == []C4_ErrorState /\ [][C4_ErrorStep]_vars

C4_Witness ==
    /\ op = "generate"
    /\ ret.tag = "Err"
    /\ gen.no_adjacent_repeats
    /\ gen.len = N + 1
    /\ rng.mode = "step"
    /\ rng.v = 7

\* C5: with both flags set and length <= N, the returned VDString has
\* pairwise distinct symbols and no two consecutive symbols equal.
C5_BothFlags ==
    (GenerateOk /\ gen.no_repeats /\ gen.no_adjacent_repeats /\ gen.len <= N) =>
        (PairwiseDistinct(ret.val.chars) /\ NoAdjacentEqual(ret.val.chars))

C5_Witness ==
    /\ GenerateOk
    /\ gen.no_repeats
    /\ gen.no_adjacent_repeats
    /\ gen.len = N
    /\ Len(ret.val.chars) = N

\* The reference alphabet as the specification lists it.
SpecAlphabetSeq ==
    << "A", "B", "C", "D", "E", "F", "G", "H", "J", "K", "M", "N", "P", "Q",
       "R", "S", "T", "U", "V", "W", "X", "Y", "Z", "2", "3", "4", "5", "6",
       "7", "8", "9" >>

SpecAlphabet == {SpecAlphabetSeq[k] : k \in 1..Len(SpecAlphabetSeq)}

Least(S) == CHOOSE k \in S : \A j \in S : k <= j

\* C6: from_str(s) succeeds iff every character of s is a member of the
\* alphabet; when it fails the error is InvalidChar(c), c the first character
\* of s from the left that is not in the alphabet, and no VDString is
\* produced.
C6_ParseValidates ==
    op = "from_str" =>
        LET bad == {k \in 1..Len(input) : input[k] \notin SpecAlphabet} IN
        /\ (ret.tag = "Ok") <=> (bad = {})
        /\ bad # {} =>
            /\ ret.tag = "Err"
            /\ ret.val = [kind |-> "InvalidChar", char |-> input[Least(bad)]]
            /\ ~HasString

C6_Witness ==
    /\ op = "from_str"
    /\ ret.tag = "Err"
    /\ input = << "A", "O", "!" >>
    /\ ret.val.char = "O"

\* C7: for every raw text s made only of alphabet characters (the empty text
\* included), from_str(s) succeeds, the cached text of the VDString, and the
\* text deref and Display yield, equal s exactly, and the symbol sequence is
\* as long as s with symbol k rendering to the k-th character of s.
C7_RoundTrip ==
    (op = "from_str" /\ \A k \in 1..Len(input) : input[k] \in SpecAlphabet) =>
        /\ ret.tag = "Ok"
        /\ ret.val.cache = input
        /\ Len(ret.val.chars) = Len(input)
        /\ \A k \in 1..Len(input) : as_char(ret.val.chars[k]) = input[k]
        /\ obs.op \in {"deref", "display"} => obs.text = input

C7_Witness ==
    /\ op = "from_str"
    /\ input = << "B", "9", "A" >>
    /\ ret.tag = "Ok"
    /\ obs.op = "display"

\* C8: VDChar::new(c) returns a value iff c is literally one of the N
\* alphabet members (lowercase letters and O, 0, I, 1 are rejected); the
\* value's index is the position of c in the alphabet, so it lies in [0, N)
\* and as_char gives c back, and distinct accepted characters yield distinct
\* VDChars.
C8_VDCharNew ==
    op = "VDChar::new" =>
        LET r == ret.val IN
        /\ (r # None) <=> (input \in SpecAlphabet)
        /\ input \in {"O", "0", "I", "1", "a", "b", "o", "i", "l", "z"} => r = None
        /\ r # None =>
            /\ r[1] \in 0..(N - 1)
            /\ SpecAlphabetSeq[r[1] + 1] = input
            /\ as_char(r[1]) = input
            /\ \A d \in Chars \ {input} :
                VDChar_new(d) # None => VDChar_new(d) # r

C8_Witness ==
    /\ op = "VDChar::new"
    /\ input = "9"
    /\ ret.val = Some(30)

\* C9: the cached text of every VDString, however it was constructed
\* (VDString::new, from_str, generate) and whatever operations were applied
\* to it since (len, index, iteration, as_vdchars, deref, Display, clone), is
\* the in-order concatenation of as_char of its symbols, a clone included;
\* and no operation changes the symbols or the cache of an existing VDString.
IsRendering(s) ==
    /\ Len(s.cache) = Len(s.chars)
    /\ \A k \in 1..Len(s.chars) : s.cache[k] = as_char(s.chars[k])

C9_CacheIsRendering ==
    /\ ret.tag = "Ok" => IsRendering(ret.val)
    /\ obs.op = "clone" =>
        LET copy == [chars |-> obs.syms, cache |-> obs.text] IN
        IsRendering(copy) /\ copy = ret.val

C9_Immutable == ret.tag = "Ok" => ret' = ret

C9_CacheInvariant == []C9_CacheIsRendering /\ [][C9_Immutable]_vars

C9_Witness ==
    /\ op = "generate"
    /\ ret.tag = "Ok"
    /\ obs.op = "clone"
    /\ Len(ret.val.chars) >= 2
    /\ ret.val.chars[1] # ret.val.chars[2]
    /\ ret.val.cache[1] = "9"

\* A step of generate after its entry: the code runs on until it returns.
GenerateStep ==
    \/ ShuffleStep
    \/ ShuffleDone
    \/ RepairStep
    \/ RepairExhausted
    \/ SampleAccept
    \/ SampleReject
    \/ SampleDone

\* generate keeps running once entered, and the randomness source is fair to
\* the rejection loop: a candidate that can be accepted eventually is drawn.
\* Every step of generate changes one of these.
progress == << pc, draws, tries >>

FairSpec ==
    /\ Init
    /\ [][Next]_vars
    /\ WF_progress(GenerateStep)
    /\ WF_progress(SampleAccept)

\* The source yields the same index modulo N at every draw.
ConstantModN(r) == r.mode = "step" /\ r.inc % N = 0

RejectionBranch == ~gen.no_repeats /\ gen.no_adjacent_repeats /\ gen.len >= 2

\* C10, the bounded branches: every loop iteration of the shuffle and of the
\* with-replacement loop without no_adjacent_repeats makes one draw; the call
\* returns after exactly `length` of them, the repair loop having rotated
\* nothing, and never runs past that count.
C10_IterationsFixed ==
    (op = "generate" /\ (gen.no_repeats \/ ~gen.no_adjacent_repeats)) =>
        /\ draws <= gen.len
        /\ tries = 0
        /\ ret.tag = "Ok" => draws = gen.len

\* C10, the rejection branch: under a source that is constant modulo N the
\* call never returns and the output never grows past one symbol; under any
\* other source a further discarded draw stays possible for as long as the
\* loop runs (within the cap on draws).
C10_RejectionLoop ==
    /\ (op = "generate" /\ RejectionBranch /\ ConstantModN(rng)) =>
        (ret.tag = "None" /\ pc = "sample" /\ Len(result) <= 1)
    /\ (/\ op = "generate"
        /\ RejectionBranch
        /\ rng.mode = "free"
        /\ pc = "sample"
        /\ Len(result) \in 1..(gen.len - 1)
        /\ draws < MaxDraws) => ENABLED (SampleReject /\ result' = result)

\* C10: generate returns from the shuffle branch and from the
\* with-replacement branch without no_adjacent_repeats after a number of
\* iterations fixed by length, for every source; with no_adjacent_repeats it
\* returns when the source is fair to the rejection loop, and a source that
\* is constant modulo N keeps it in the loop with the output stuck at one
\* symbol.
C10_Termination ==
    /\ []C10_IterationsFixed
    /\ []C10_RejectionLoop
    /\ (op = "generate" /\ (gen.no_repeats \/ ~gen.no_adjacent_repeats))
            ~> (ret.tag # "None")
    /\ (op = "generate" /\ gen.no_adjacent_repeats /\ ~ConstantModN(rng))
            ~> (ret.tag # "None")

C10_Witness ==
    /\ op = "generate"
    /\ RejectionBranch
    /\ ConstantModN(rng)
    /\ rng.inc = 31
    /\ pc = "sample"
    /\ Len(result) = 1
    /\ draws = MaxDraws

\* C11: the source is drawn from once per loop iteration and nowhere else.
\* With length = 0 generate returns an empty VDString without a draw, under
\* any flags; the shuffle makes one draw per output position, `length` in
\* all; the with-replacement loop makes one draw per accepted symbol and one
\* per discarded candidate, exactly `length` when no_adjacent_repeats is off;
\* no other operation draws, and the source changes only with a draw.
C11_DrawCount ==
    /\ op # "generate" => draws = 0
    /\ (op = "generate" /\ gen.len = 0) =>
        /\ draws = 0
        /\ ret.tag # "Err"
        /\ ret.tag = "Ok" => (ret.val.chars = << >> /\ ret.val.cache = << >>)
    /\ (op = "generate" /\ pc = "shuffle") => draws = i
    /\ (GenerateOk /\ gen.no_repeats) => draws = gen.len
    /\ (op = "generate" /\ ~gen.no_repeats) => draws >= Len(result)
    /\ (op = "generate" /\ ~gen.no_repeats /\ ~gen.no_adjacent_repeats) =>
        draws = Len(result)
    /\ (GenerateOk /\ ~gen.no_repeats /\ ~gen.no_adjacent_repeats) =>
        draws = gen.len

C11_DrawStep ==
    /\ draws' # draws => (draws' = draws + 1 /\ pc \in {"shuffle", "sample"})
    /\ rng' # rng => draws' = draws + 1
    /\ (pc = "shuffle" /\ pc' = "shuffle") => (draws' = draws + 1 /\ i' = i + 1)
    /\ (pc = "sample" /\ pc' = "sample") =>
        /\ draws' = draws + 1
        /\ \/ result' = result
           \/ (ch' # None /\ result' = Append(result, ch'[1]))

C11_MinimalDraws == []C11_DrawCount /\ [][C11_DrawStep]_vars

C11_Witness ==
    /\ GenerateOk
    /\ ~gen.no_repeats
    /\ gen.no_adjacent_repeats
    /\ rng.mode = "free"
    /\ gen.len = 3
    /\ draws = 5

\* C12: with both flags set the repair is a no-op: rotate_left never runs,
\* the repair loop leaves at its first test, and the returned VDString is the
\* first `length` entries of the shuffled pool in their order, which is what
\* the call returns from the same pool with no_repeats alone.
C12_NoRotation ==
    /\ rotations = 0
    /\ tries = 0
    /\ (op = "generate" /\ pc = "repair") =>
        (result = Prefix(pool, gen.len) /\ NoAdjacentEqual(result))
    /\ (GenerateOk /\ gen.no_repeats) =>
        /\ Len(ret.val.chars) = gen.len
        /\ \A k \in 1..gen.len : ret.val.chars[k] = pool[k]

\* The repair loop changes neither the pool nor the result on its way out.
C12_RepairStep ==
    pc = "repair" => (pool' = pool /\ result' = result /\ draws' = draws)

C12_RepairIsNoOp == []C12_NoRotation /\ [][C12_RepairStep]_vars

C12_Witness ==
    /\ GenerateOk
    /\ gen.no_repeats
    /\ gen.no_adjacent_repeats
    /\ gen.len = N
    /\ rng.inc = 1
    /\ rotations = 0
    /\ ret.val.chars[1] # 0

IsPermutation(p) ==
    /\ Len(p) = N
    /\ {p[k] : k \in 1..Len(p)} = 0..(N - 1)

\* C13: throughout the no_repeats branch the pool is a permutation of
\* 0..N-1; at step i (0 <= i < length <= N) the remaining range N - i is at
\* least 1, so the modulus is never zero, and whatever the draw the chosen j
\* satisfies i <= j < N; a step swaps positions i and j and nothing else, so
\* positions 0..i-1 fixed by earlier steps are never changed later.
C13_PoolState ==
    (op = "generate" /\ gen.no_repeats /\ gen.len <= N) =>
        /\ IsPermutation(pool)
        /\ i <= gen.len
        /\ (pc = "shuffle" /\ i < gen.len) =>
            /\ Len(pool) - i >= 1
            /\ \A x \in NextU32(rng) :
                LET j == i + (x % (Len(pool) - i)) IN i <= j /\ j < N

C13_PoolStep ==
    (pc = "shuffle" /\ i' = i + 1) =>
        /\ \A k \in 1..i : pool'[k] = pool[k]
        /\ \E j \in i..(N - 1) :
            /\ pool'[i + 1] = pool[j + 1]
            /\ pool'[j + 1] = pool[i + 1]
            /\ \A k \in (1..N) \ {i + 1, j + 1} : pool'[k] = pool[k]

C13_PoolFixedAfterShuffle ==
    (op = "generate" /\ pc # "shuffle") => pool' = pool

C13_FisherYates ==
    /\ []C13_PoolState
    /\ [][C13_PoolStep]_vars
    /\ [][C13_PoolFixedAfterShuffle]_vars

C13_Witness ==
    /\ op = "generate"
    /\ gen.no_repeats
    /\ gen.len = N
    /\ pc = "shuffle"
    /\ i = N - 1
    /\ pool[1] # 0
    /\ pool[N] # N - 1

====
